---- MODULE Spec2Model ----
(***************************************************************************)
(* vysync: snapshot / diff / patch reconciliation of solar sites and        *)
(* equipment across the monitoring platform (VCOM), the database           *)
(* (Supabase) and the CMMS (Yuman).                                        *)
(*                                                                         *)
(* Python values are modelled as strings: None is the string "None", a     *)
(* number is its decimal text.  A Python dict is a sequence of <<key,      *)
(* value>> pairs with distinct keys, in insertion order.                   *)
(***************************************************************************)
EXTENDS Integers, Sequences, FiniteSets, TLC

VARIABLES
    vcom,                 \* what the monitoring API returns: a sequence of systems
    sites_mapping,        \* DB table: a sequence of rows
    equipments_mapping,   \* DB table: a sequence of rows
    yuman_sites,          \* CMMS: the sites it stores
    yuman_materials,      \* CMMS: the materials it stores
    yuman_next,           \* CMMS: the next identifier it mints
    pc, run, faults,      \* position of main(), runs started, adapter errors raised
    v_sites, v_equips, db_sites, db_equips, patch_sites, patch_equips,  \* locals of main()
    patch, idx, new_id,   \* locals of YumanAdapter.apply_*_patch
    REQ_TS, now,          \* the rate limiter's window, and the clock
    th,                   \* the callers of rate-limited functions, each in the wrapper
    started, appended,    \* history: the wrapped calls begun and the timestamps appended
    entered,              \* history: the number of calls made through the wrapper
    calls,                \* history: the outbound CMMS calls of all runs
    prev,                 \* history: how the previous run ended, and what it was fed
    cur_in, tgt_in, d_out, d_pc,     \* diff_entities applied to two snapshots
    p_old, p_new, p_out, p_pc,       \* one update pair of a CMMS applier, and its payload
    environ                          \* os.environ of the process that runs main()

world_vars == <<vcom, sites_mapping, equipments_mapping, yuman_sites, yuman_materials, yuman_next>>
main_vars == <<pc, run, faults, v_sites, v_equips, db_sites, db_equips, patch_sites, patch_equips,
               patch, idx, new_id>>
rate_vars == <<REQ_TS, now, th, started, appended, entered>>
diff_vars == <<cur_in, tgt_in, d_out, d_pc>>
pay_vars == <<p_old, p_new, p_out, p_pc>>
env_vars == <<environ>>
hist_vars == <<calls, prev>>
vars == <<world_vars, main_vars, rate_vars, hist_vars, diff_vars, pay_vars, env_vars>>

(***************************************************************************)
(* Python values                                                           *)
(***************************************************************************)
None == "None"

\* bool(x) of an optional string or number: None, "" and 0 are falsy
Truthy(x) == x \notin {None, "", "0"}

\* a or b
Or(a, b) == IF Truthy(a) THEN a ELSE b

(***************************************************************************)
(* dict: a sequence of <<key, value>> pairs                                *)
(***************************************************************************)
Keys(d) == {d[i][1] : i \in DOMAIN d}

Has(d, k) == k \in Keys(d)

Get(d, k) == d[CHOOSE i \in DOMAIN d : d[i][1] = k][2]

\* d[k] = v : a new key is appended, an old key keeps its place
Put(d, k, v) ==
    IF Has(d, k)
    THEN [i \in DOMAIN d |-> IF d[i][1] = k THEN <<k, v>> ELSE d[i]]
    ELSE Append(d, <<k, v>>)

Values(d) == [i \in DOMAIN d |-> d[i][2]]

Range(s) == {s[i] : i \in DOMAIN s}

(***************************************************************************)
(* models.py                                                               *)
(***************************************************************************)
CAT_INVERTER == "11102"
CAT_MODULE == "11103"
CAT_STRING == "12404"

Site(key, name, lat, lon, power, date, addr, yid) ==
    [vcom_system_key |-> key, name |-> name, latitude |-> lat,
     longitude |-> lon, nominal_power |-> power, commission_date |-> date,
     address |-> addr, yuman_site_id |-> yid]

SiteKey(s) == s.vcom_system_key

Equipment(site, cat, type, dev, name, brand, model, serial, count, parent, yid) ==
    [site_key |-> site, category_id |-> cat, eq_type |-> type,
     vcom_device_id |-> dev, name |-> name, brand |-> brand, model |-> model,
     serial_number |-> serial, count |-> count, parent_vcom_id |-> parent,
     yuman_material_id |-> yid]

EquipKey(e) == <<e.site_key, e.vcom_device_id>>

(***************************************************************************)
(* diff.py                                                                 *)
(***************************************************************************)
PatchSet(add, upd, delete) == [add |-> add, update |-> upd, delete |-> delete]

is_empty(p) == ~(p.add # <<>> \/ p.update # <<>> \/ p.delete # <<>>)

\* a comparison in which None never equals None
DiffersNoneUnequal(cur, tgt) ==
    cur # tgt \/ \E f \in DOMAIN cur : cur[f] = None

\* asdict(cur) != asdict(tgt): field by field, None equal to None
Differs(cur, tgt) == cur # tgt

\* an add branch that forgets to look the key up in current
DiffAddEveryTarget(current, target) == Values(target)

\* the first loop's two branches, over target.items()

DiffAdd(current, target) ==
    Values(SelectSeq(target, LAMBDA p : ~Has(current, p[1])))

\* an update branch that pairs the target with the first entity of current
DiffUpdateFirstOfCurrent(current, target) ==
    LET both == SelectSeq(target,
                    LAMBDA p : Has(current, p[1]) /\ Differs(Get(current, p[1]), p[2]))
    IN  [i \in DOMAIN both |-> <<current[1][2], both[i][2]>>]

DiffUpdate(current, target) ==
    LET both == SelectSeq(target,
                    LAMBDA p : Has(current, p[1]) /\ Differs(Get(current, p[1]), p[2]))
    IN  [i \in DOMAIN both |-> <<Get(current, both[i][1]), both[i][2]>>]

\* a second loop that stops at the first key it finds in target
DiffDeleteBreak(current, target) ==
    LET hits == {i \in DOMAIN current : Has(target, current[i][1])}
        stop == IF hits = {} THEN Len(current) + 1
                ELSE CHOOSE i \in hits : \A j \in hits : i <= j
    IN  Values(SubSeq(current, 1, stop - 1))

\* the second loop, over current.items()
DiffDelete(current, target) ==
    Values(SelectSeq(current, LAMBDA p : ~Has(target, p[1])))

diff_entities(current, target) ==
    PatchSet(DiffAdd(current, target), DiffUpdate(current, target),
             DiffDelete(current, target))

(***************************************************************************)
(* Sequence helpers                                                        *)
(***************************************************************************)
RECURSIVE DictOf(_)
\* the dict built by assigning the pairs in order
DictOf(pairs) ==
    IF pairs = <<>> THEN <<>>
    ELSE LET n == Len(pairs)
         IN  Put(DictOf(SubSeq(pairs, 1, n - 1)), pairs[n][1], pairs[n][2])

RECURSIVE Concat(_)
Concat(seqs) ==
    IF seqs = <<>> THEN <<>> ELSE Head(seqs) \o Concat(Tail(seqs))

(***************************************************************************)
(* adapters/vcom_adapter.py                                                *)
(***************************************************************************)
\* Site(...) of one system
VcomSite(sys) ==
    Site(sys.key, Or(sys.name, sys.key), sys.latitude, sys.longitude,
         sys.nominalPower, sys.commissionDate, sys.street, None)

\* the module Equipment of one system: only panels[0], when there are panels
VcomModules(sys) ==
    IF sys.panels = <<>> THEN <<>>
    ELSE LET p == sys.panels[1]
         IN  <<Equipment(sys.key, CAT_MODULE, "module", "MODULES-" \o sys.key,
                         Or(p.model, "Modules"), p.vendor, p.model, None, p.count,
                         None, None)>>

VcomInverters(sys) ==
    [i \in DOMAIN sys.inverters |->
        LET inv == sys.inverters[i]
        IN  Equipment(sys.key, CAT_INVERTER, "inverter", inv.id, Or(inv.name, inv.id),
                      inv.vendor, inv.model, inv.serial, None, None, None)]

fetch_snapshot(systems) ==
    LET sites == [i \in DOMAIN systems |->
                    <<SiteKey(VcomSite(systems[i])), VcomSite(systems[i])>>]
        eqs == Concat([i \in DOMAIN systems |->
                    VcomModules(systems[i]) \o VcomInverters(systems[i])])
    IN  [sites |-> DictOf(sites),
         equips |-> DictOf([i \in DOMAIN eqs |-> <<EquipKey(eqs[i]), eqs[i]>>])]

(***************************************************************************)
(* adapters/supabase_adapter.py                                            *)
(***************************************************************************)
SbFetchSites(rows) ==
    LET kept == SelectSeq(rows, LAMBDA r : Truthy(r.vcom_system_key))
    IN  DictOf([i \in DOMAIN kept |->
            LET r == kept[i]
            IN  <<r.vcom_system_key,
                  Site(r.vcom_system_key, Or(r.name, r.vcom_system_key), r.latitude,
                       r.longitude, r.nominal_power, r.commission_date, r.address,
                       r.yuman_site_id)>>])

SbFetchEquipments(rows) ==
    LET kept == SelectSeq(rows,
                    LAMBDA r : r.category_id \in {CAT_INVERTER, CAT_MODULE, CAT_STRING})
    IN  DictOf([i \in DOMAIN kept |->
            LET r == kept[i]
            IN  <<<<r.vcom_system_key, r.vcom_device_id>>,
                  Equipment(r.vcom_system_key, r.category_id, r.eq_type, r.vcom_device_id,
                            r.name, r.brand, r.model, r.serial_number, r.count,
                            r.parent_vcom_id, r.yuman_material_id)>>])

\* Equipment.to_dict() as a row of equipments_mapping
EquipRow(e) ==
    [vcom_system_key |-> e.site_key, category_id |-> e.category_id,
     eq_type |-> e.eq_type, vcom_device_id |-> e.vcom_device_id, name |-> e.name,
     brand |-> e.brand, model |-> e.model, serial_number |-> e.serial_number,
     count |-> e.count, parent_vcom_id |-> e.parent_vcom_id,
     yuman_material_id |-> e.yuman_material_id]

\* table.insert([s.to_dict()])
SbInsertSite(rows, s) == Append(rows, s)

\* an update without its .eq filter
SbUpdateSiteNoFilter(rows, new) == [i \in DOMAIN rows |-> new]

\* table.update(new.to_dict()).eq("vcom_system_key", new.key())
SbUpdateSite(rows, new) ==
    [i \in DOMAIN rows |->
        IF rows[i].vcom_system_key = SiteKey(new) THEN new ELSE rows[i]]

SbInsertEquip(rows, e) == Append(rows, EquipRow(e))

\* an update filtered on the device id alone
SbUpdateEquipDeviceOnly(rows, new) ==
    [i \in DOMAIN rows |->
        IF rows[i].vcom_device_id = new.vcom_device_id
        THEN EquipRow(new) ELSE rows[i]]

\* table.update(new.to_dict()).eq("vcom_device_id", ..).eq("vcom_system_key", ..)
SbUpdateEquip(rows, new) ==
    [i \in DOMAIN rows |->
        IF rows[i].vcom_device_id = new.vcom_device_id
           /\ rows[i].vcom_system_key = new.site_key
        THEN EquipRow(new) ELSE rows[i]]

\* a write-back without its .eq filter
SbSetSiteIdNoFilter(rows, key, id) ==
    [i \in DOMAIN rows |-> [rows[i] EXCEPT !.yuman_site_id = id]]

\* table("sites_mapping").update({"yuman_site_id": id}).eq("vcom_system_key", key)
SbSetSiteId(rows, key, id) ==
    [i \in DOMAIN rows |->
        IF rows[i].vcom_system_key = key
        THEN [rows[i] EXCEPT !.yuman_site_id = id] ELSE rows[i]]

\* table("equipments_mapping").update({"yuman_material_id": id}).eq(..).eq(..)
SbSetMaterialId(rows, site, dev, id) ==
    [i \in DOMAIN rows |->
        IF rows[i].vcom_device_id = dev /\ rows[i].vcom_system_key = site
        THEN [rows[i] EXCEPT !.yuman_material_id = id] ELSE rows[i]]

\* table("sites_mapping").select("yuman_site_id").eq("vcom_system_key", key).single()
SbSiteRow(rows, key) ==
    LET hit == SelectSeq(rows, LAMBDA r : r.vcom_system_key = key)
    IN  IF hit = <<>> THEN None ELSE hit[1].yuman_site_id

(***************************************************************************)
(* adapters/yuman_adapter.py: the rate limiter                             *)
(*                                                                         *)
(* Time is counted in ticks.  The source's window of 60 s and ceiling of   *)
(* 60 calls are scaled down to Window ticks and RATE calls; the 0.1 s      *)
(* safety margin is Margin ticks.                                          *)
(***************************************************************************)
RATE == 2
Window == 4
Margin == 1

\* _REQ_TS[:] = [t for t in _REQ_TS if now - t < 60]
Evict(ts, t_now) == SelectSeq(ts, LAMBDA t : t_now - t < Window)

\* a ceiling test that is off by one
AtCeilingOffByOne(ts) == Len(ts) > RATE

\* if len(_REQ_TS) >= RATE
AtCeiling(ts) == Len(ts) >= RATE

\* sleep_for = 60 - (now - _REQ_TS[0]) + 0.1
SleepFor(ts, t_now) == Window - (t_now - ts[1]) + Margin

\* one call through @rate_limited by the only caller, the wrapped call taking
\* no time: the clock after the sleep, and the window after the append
RateLimitedCall(ts, t_now) ==
    LET kept == Evict(ts, t_now)
        wake == IF AtCeiling(kept) THEN t_now + SleepFor(kept, t_now) ELSE t_now
    IN  [now |-> wake, ts |-> Append(kept, wake)]

(***************************************************************************)
(* The CMMS behind YumanClient: it stores what it is sent and mints ids     *)
(***************************************************************************)
F_KEY == "System Key (Vcom ID)"
F_POWER == "Nominal Power (kWc)"
F_DATE == "Commission Date"
CUSTOM_INVERTER_ID == "Inverter ID (Vcom)"

\* yc.create_site(payload)
YuCreateSite(sites, id, payload) ==
    Append(sites, [id |-> id, name |-> payload.name, address |-> payload.address,
                   latitude |-> None, longitude |-> None,
                   fields |-> payload.fields])

\* yc.update_site(id, {"fields": fields_patch})
YuUpdateSite(sites, id, fields_patch) ==
    [i \in DOMAIN sites |->
        IF sites[i].id = id
        THEN [sites[i] EXCEPT !.fields = DictOf(@ \o fields_patch)]
        ELSE sites[i]]

\* yc.create_material(payload)
YuCreateMaterial(mats, id, payload) ==
    Append(mats, [id |-> id, site_id |-> payload.site_id, name |-> payload.name,
                  category_id |-> payload.category_id, brand |-> payload.brand,
                  model |-> payload.model, serial_number |-> payload.serial_number,
                  count |-> None, fields |-> payload.fields])

\* yc.update_material(id, payload)
YuUpdateMaterial(mats, id, payload) ==
    [i \in DOMAIN mats |->
        IF mats[i].id = id
        THEN [mats[i] EXCEPT
                !.model = IF Has(payload, "model") THEN Get(payload, "model") ELSE @,
                !.fields = IF Has(payload, "fields")
                           THEN DictOf(@ \o Get(payload, "fields")) ELSE @]
        ELSE mats[i]]

\* cvals.get(label): the custom fields of a record, by name
Cval(fields, label) == IF Has(fields, label) THEN Get(fields, label) ELSE None

(***************************************************************************)
(* adapters/yuman_adapter.py: snapshots                                    *)
(***************************************************************************)
\* float(x) of a number or of its text
Float(x) == x

YuFetchSites(sites) ==
    LET kept == SelectSeq(sites, LAMBDA s : Truthy(Cval(s.fields, F_KEY)))
    IN  DictOf([i \in DOMAIN kept |->
            LET s == kept[i]
                cv == s.fields
            IN  <<Cval(cv, F_KEY),
                  Site(Cval(cv, F_KEY), s.name, s.latitude, s.longitude,
                       IF Truthy(Cval(cv, F_POWER)) THEN Float(Cval(cv, F_POWER)) ELSE None,
                       Cval(cv, F_DATE), s.address, s.id)>>])

\* next((s for s in sites_cache.values() if s.yuman_site_id == s_id), None)
SitesOfId(sites_cache, s_id) ==
    SelectSeq(Values(sites_cache), LAMBDA s : s.yuman_site_id = s_id)

\* the Equipment built from material m of the mapped site
YuEquip(site, m) ==
    LET vcom_id == IF m.category_id = CAT_MODULE
                   THEN "MODULES-" \o site.vcom_system_key
                   ELSE IF m.category_id = CAT_INVERTER
                        THEN Cval(m.fields, CUSTOM_INVERTER_ID)
                        ELSE m.name
    IN  Equipment(site.vcom_system_key, m.category_id,
                  IF m.category_id = CAT_INVERTER THEN "inverter"
                  ELSE IF m.category_id = CAT_MODULE THEN "module" ELSE "string_pv",
                  vcom_id, m.name, m.brand, m.model, m.serial_number, m.count,
                  None, m.id)

YuFetchEquips(sites_cache, mats) ==
    LET kept == SelectSeq(mats, LAMBDA m : SitesOfId(sites_cache, m.site_id) # <<>>)
    IN  DictOf([i \in DOMAIN kept |->
            LET eq == YuEquip(SitesOfId(sites_cache, kept[i].site_id)[1], kept[i])
            IN  <<EquipKey(eq), eq>>])

(***************************************************************************)
(* adapters/yuman_adapter.py: what the appliers send                       *)
(***************************************************************************)
\* create_site payload of an added Site
CreateSitePayload(s) ==
    [name |-> s.name, address |-> Or(s.address, ""),
     fields |-> << <<F_KEY, s.vcom_system_key>>, <<F_POWER, s.nominal_power>>,
                   <<F_DATE, s.commission_date>> >>]

\* a fields_patch that forgets the tests on the new value
SiteFieldsPatchNoNullTest(old, new) ==
    (IF old.nominal_power # new.nominal_power
     THEN << <<F_POWER, new.nominal_power>> >> ELSE <<>>)
    \o
    (IF old.commission_date # new.commission_date
     THEN << <<F_DATE, new.commission_date>> >> ELSE <<>>)

\* fields_patch of a Site update pair
SiteFieldsPatch(old, new) ==
    (IF old.nominal_power # new.nominal_power /\ new.nominal_power # None
     THEN << <<F_POWER, new.nominal_power>> >> ELSE <<>>)
    \o
    (IF old.commission_date # new.commission_date /\ Truthy(new.commission_date)
     THEN << <<F_DATE, new.commission_date>> >> ELSE <<>>)

\* create_material payload of an added Equipment under the site's CMMS id
CreateMaterialPayload(e, site_id) ==
    [site_id |-> site_id, name |-> e.name, category_id |-> e.category_id,
     brand |-> e.brand, model |-> e.model, serial_number |-> e.serial_number,
     fields |-> IF e.category_id = CAT_INVERTER
                THEN << <<CUSTOM_INVERTER_ID, e.vcom_device_id>> >> ELSE <<>>]

\* a payload that pushes the model whenever it differs
MaterialPayloadOverwrite(old, new) ==
    IF old.model # new.model /\ Truthy(new.model)
    THEN << <<"model", new.model>> >> ELSE <<>>

\* update_material payload of an Equipment update pair
MaterialPayload(old, new) ==
    LET fields_patch ==
            IF old.category_id = CAT_INVERTER /\ old.vcom_device_id # new.vcom_device_id
            THEN << <<CUSTOM_INVERTER_ID, new.vcom_device_id>> >> ELSE <<>>
    IN  (IF ~Truthy(old.model) /\ Truthy(new.model)
         THEN << <<"model", new.model>> >> ELSE <<>>)
        \o
        (IF fields_patch # <<>> THEN << <<"fields", fields_patch>> >> ELSE <<>>)

(***************************************************************************)
(* The worlds main() runs in                                               *)
(***************************************************************************)
MaxRuns == 2
MaxFaults == 1

Inverter(id, name, model) ==
    [id |-> id, name |-> name, serial |-> None, vendor |-> None, model |-> model]

System(key, name, power, date, panels, inverters) ==
    [key |-> key, name |-> name, nominalPower |-> power, commissionDate |-> date,
     latitude |-> None, longitude |-> None, street |-> None,
     panels |-> panels, inverters |-> inverters]

SysA1 == System("S1", "Alpha", "10", None, <<>>, <<Inverter("I1", "Inv 1", None)>>)

SysA2 == System("S1", "Alpha", "12", "2020-01-01",
                <<[model |-> "P1", vendor |-> None, count |-> "100"]>>,
                <<Inverter("I1", "Inv 1", "X1")>>)

SysB == System("S2", None, None, None, <<>>, <<Inverter("I1", None, None)>>)

\* what the monitoring platform may report at the start of a run
VcomWorlds == {<<>>, <<SysA1>>, <<SysA2>>, <<SysB>>, <<SysA1, SysB>>}

\* a string row of equipments_mapping, written by another tool
StringRow ==
    EquipRow(Equipment("S1", CAT_STRING, "string_pv", "STR1", "String 1", None, None,
                       None, None, "I1", None))

\* an inverter row of equipments_mapping whose device identifier is the empty text
BlankRow ==
    EquipRow(Equipment("S1", CAT_INVERTER, "inverter", "", "Inv 0", None, None,
                       None, None, None, None))

\* the equipments_mapping table main() may find at its first run
InitEquipTables == {<<>>, <<StringRow>>, <<BlankRow>>}

\* a site and its inverter that exist in the CMMS alone, with their custom fields set
OrphanSite ==
    [id |-> "90", name |-> "Omega", address |-> "", latitude |-> None, longitude |-> None,
     fields |-> << <<F_KEY, "S9">>, <<F_POWER, "5">>, <<F_DATE, None>> >>]

OrphanMaterial ==
    [id |-> "91", site_id |-> "90", name |-> "Inv 9", category_id |-> CAT_INVERTER,
     brand |-> None, model |-> None, serial_number |-> None, count |-> None,
     fields |-> << <<CUSTOM_INVERTER_ID, "I9">> >>]

\* what the CMMS may store before the first run
InitCmms ==
    {[sites |-> <<>>, materials |-> <<>>],
     [sites |-> <<OrphanSite>>, materials |-> <<OrphanMaterial>>]}

NoCmms == [sites |-> <<>>, materials |-> <<>>]

\* what main() may find at its first run: rows written by another tool in the DB,
\* or records of its own in the CMMS
InitWorlds ==
    {[equip_table |-> t, cmms |-> NoCmms] : t \in InitEquipTables}
    \cup {[equip_table |-> <<>>, cmms |-> c] : c \in InitCmms}

NoPatch == PatchSet(<<>>, <<>>, <<>>)

\* what os.getenv returns: None for an unset variable, or the text that was set
EnvValues == {None, "", "set"}
Environs == [SUPABASE_URL : EnvValues, SUPABASE_SERVICE_KEY : EnvValues]

\* SupabaseAdapter.__init__ with only the first of the two variables tested
SupabaseAdapter_initUrlOnly(env) ==
    IF env.SUPABASE_URL \in {None, ""} THEN "EnvironmentError" ELSE "created"

\* SupabaseAdapter.__init__: `if not url or not key: raise EnvironmentError(...)`
SupabaseAdapter_init(env) ==
    IF env.SUPABASE_URL \in {None, ""} \/ env.SUPABASE_SERVICE_KEY \in {None, ""}
    THEN "EnvironmentError" ELSE "created"

Call(op, key, id) == [run |-> run, op |-> op, key |-> key, id |-> id, t |-> now]

MainStart(equip_table, cmms) ==
    /\ vcom = <<>>
    /\ sites_mapping = <<>>
    /\ equipments_mapping = equip_table
    /\ yuman_sites = cmms.sites /\ yuman_materials = cmms.materials /\ yuman_next = 1
    /\ pc = "idle" /\ run = 0 /\ faults = 0
    /\ v_sites = <<>> /\ v_equips = <<>> /\ db_sites = <<>> /\ db_equips = <<>>
    /\ patch_sites = NoPatch /\ patch_equips = NoPatch
    /\ patch = NoPatch /\ idx = 1 /\ new_id = None
    /\ REQ_TS = <<>> /\ now = 0
    /\ calls = <<>>
    /\ prev = [done |-> FALSE, vcom |-> <<>>]
    /\ environ = [SUPABASE_URL |-> None, SUPABASE_SERVICE_KEY |-> None]

DiffIdle ==
    /\ cur_in = <<>> /\ tgt_in = <<>> /\ d_out = NoPatch /\ d_pc = "off"

RateIdle ==
    /\ th = <<>> /\ started = <<>> /\ appended = <<>> /\ entered = 0

PayIdle ==
    /\ p_old = <<>> /\ p_new = <<>> /\ p_out = <<>> /\ p_pc = "off"

Init ==
    /\ \E w \in InitWorlds : MainStart(w.equip_table, w.cmms)
    /\ DiffIdle /\ RateIdle /\ PayIdle

(***************************************************************************)
(* cli.py: main(), one adapter call per step                               *)
(***************************************************************************)
\* a new process: the locals and the module-level _REQ_TS start empty
StartRun ==
    /\ pc \in {"idle", "done", "aborted"}
    /\ run < MaxRuns
    /\ \E w \in VcomWorlds : vcom' = w
    /\ run' = run + 1
    /\ \E e \in Environs : environ' = e
    /\ pc' = "init_clients"
    /\ v_sites' = <<>> /\ v_equips' = <<>> /\ db_sites' = <<>> /\ db_equips' = <<>>
    /\ patch_sites' = NoPatch /\ patch_equips' = NoPatch
    /\ patch' = NoPatch /\ idx' = 1 /\ new_id' = None
    /\ REQ_TS' = <<>> /\ now' = 0
    /\ UNCHANGED <<th, started, appended, entered>>
    /\ prev' = [done |-> pc = "done", vcom |-> vcom]
    /\ UNCHANGED <<sites_mapping, equipments_mapping, yuman_sites, yuman_materials,
                   yuman_next, faults, calls, diff_vars, pay_vars>>

\* vc = VCOMAPIClient(); sb = SupabaseAdapter(); ya = YumanAdapter(sb): no call is made
\* by a constructor, and the exception of SupabaseAdapter() ends the process
InitClients ==
    /\ pc = "init_clients"
    /\ pc' = IF SupabaseAdapter_init(environ) = "EnvironmentError"
                THEN "aborted" ELSE "vcom_snapshot"
    /\ UNCHANGED <<world_vars, run, faults, v_sites, v_equips, db_sites, db_equips,
                   patch_sites, patch_equips, patch, idx, new_id, rate_vars, hist_vars,
                   diff_vars, pay_vars, environ>>

\* v_sites, v_equips = vcom_snapshot(vc)
FetchVcom ==
    /\ pc = "vcom_snapshot"
    /\ v_sites' = fetch_snapshot(vcom).sites
    /\ v_equips' = fetch_snapshot(vcom).equips
    /\ pc' = "db_fetch_sites"
    /\ UNCHANGED <<world_vars, run, faults, db_sites, db_equips, patch_sites, patch_equips,
                   patch, idx, new_id, rate_vars, hist_vars, diff_vars, pay_vars, environ>>

\* db_sites = sb.fetch_sites()
FetchDbSites ==
    /\ pc = "db_fetch_sites"
    /\ db_sites' = SbFetchSites(sites_mapping)
    /\ pc' = "db_fetch_equips"
    /\ UNCHANGED <<world_vars, run, faults, v_sites, v_equips, db_equips, patch_sites,
                   patch_equips, patch, idx, new_id, rate_vars, hist_vars, diff_vars, pay_vars, environ>>

\* db_equips = sb.fetch_equipments()
FetchDbEquips ==
    /\ pc = "db_fetch_equips"
    /\ db_equips' = SbFetchEquipments(equipments_mapping)
    /\ pc' = "diff"
    /\ UNCHANGED <<world_vars, run, faults, v_sites, v_equips, db_sites, patch_sites,
                   patch_equips, patch, idx, new_id, rate_vars, hist_vars, diff_vars, pay_vars, environ>>

\* patch_sites = diff_entities(db_sites, v_sites); patch_equips = ...
Diff ==
    /\ pc = "diff"
    /\ patch_sites' = diff_entities(db_sites, v_sites)
    /\ patch_equips' = diff_entities(db_equips, v_equips)
    /\ pc' = "sb_sites_add" /\ idx' = 1
    /\ UNCHANGED <<world_vars, run, faults, v_sites, v_equips, db_sites, db_equips,
                   patch, new_id, rate_vars, hist_vars, diff_vars, pay_vars, environ>>

\* what a step of a DB applier leaves alone
SbFrame ==
    UNCHANGED <<vcom, yuman_sites, yuman_materials, yuman_next, run, faults, v_sites,
                v_equips, db_sites, db_equips, patch_sites, patch_equips, patch, new_id,
                rate_vars, hist_vars, diff_vars, pay_vars, environ>>

\* sb.apply_sites_patch(patch_sites): for s in patch.add
SbSitesAdd ==
    /\ pc = "sb_sites_add" /\ idx <= Len(patch_sites.add)
    /\ sites_mapping' = SbInsertSite(sites_mapping, patch_sites.add[idx])
    /\ idx' = idx + 1
    /\ UNCHANGED <<pc, equipments_mapping>> /\ SbFrame

SbSitesAddDone ==
    /\ pc = "sb_sites_add" /\ idx > Len(patch_sites.add)
    /\ pc' = "sb_sites_upd" /\ idx' = 1
    /\ UNCHANGED <<sites_mapping, equipments_mapping>> /\ SbFrame

\* for old, new in patch.update
SbSitesUpd ==
    /\ pc = "sb_sites_upd" /\ idx <= Len(patch_sites.update)
    /\ sites_mapping' = SbUpdateSite(sites_mapping, patch_sites.update[idx][2])
    /\ idx' = idx + 1
    /\ UNCHANGED <<pc, equipments_mapping>> /\ SbFrame

SbSitesUpdDone ==
    /\ pc = "sb_sites_upd" /\ idx > Len(patch_sites.update)
    /\ pc' = "sb_equips_add" /\ idx' = 1
    /\ UNCHANGED <<sites_mapping, equipments_mapping>> /\ SbFrame

\* sb.apply_equips_patch(patch_equips): for e in patch.add
SbEquipsAdd ==
    /\ pc = "sb_equips_add" /\ idx <= Len(patch_equips.add)
    /\ equipments_mapping' = SbInsertEquip(equipments_mapping, patch_equips.add[idx])
    /\ idx' = idx + 1
    /\ UNCHANGED <<pc, sites_mapping>> /\ SbFrame

SbEquipsAddDone ==
    /\ pc = "sb_equips_add" /\ idx > Len(patch_equips.add)
    /\ pc' = "sb_equips_upd" /\ idx' = 1
    /\ UNCHANGED <<sites_mapping, equipments_mapping>> /\ SbFrame

\* for old, new in patch.update
SbEquipsUpd ==
    /\ pc = "sb_equips_upd" /\ idx <= Len(patch_equips.update)
    /\ equipments_mapping' = SbUpdateEquip(equipments_mapping, patch_equips.update[idx][2])
    /\ idx' = idx + 1
    /\ UNCHANGED <<pc, sites_mapping>> /\ SbFrame

SbEquipsUpdDone ==
    /\ pc = "sb_equips_upd" /\ idx > Len(patch_equips.update)
    /\ pc' = "refresh_sites" /\ idx' = 1
    /\ UNCHANGED <<sites_mapping, equipments_mapping>> /\ SbFrame

\* a second hop that keeps the snapshot fetched before the first hop
RefreshSitesStale ==
    /\ pc = "refresh_sites"
    /\ pc' = "refresh_equips"
    /\ UNCHANGED <<world_vars, run, faults, v_sites, v_equips, db_sites, db_equips,
                   patch_sites, patch_equips, patch, idx, new_id, rate_vars, hist_vars,
                   diff_vars, pay_vars, environ>>

\* db_sites = sb.fetch_sites()          # refresh after insert
RefreshSites ==
    /\ pc = "refresh_sites"
    /\ db_sites' = SbFetchSites(sites_mapping)
    /\ pc' = "refresh_equips"
    /\ UNCHANGED <<world_vars, run, faults, v_sites, v_equips, db_equips, patch_sites,
                   patch_equips, patch, idx, new_id, rate_vars, hist_vars, diff_vars, pay_vars, environ>>

\* db_equips = sb.fetch_equipments()
RefreshEquips ==
    /\ pc = "refresh_equips"
    /\ db_equips' = SbFetchEquipments(equipments_mapping)
    /\ pc' = "ya_sites_fetch"
    /\ UNCHANGED <<world_vars, run, faults, v_sites, v_equips, db_sites, patch_sites,
                   patch_equips, patch, idx, new_id, rate_vars, hist_vars, diff_vars, pay_vars, environ>>

(***************************************************************************)
(* YumanAdapter.apply_sites_patch(db_sites)                                *)
(***************************************************************************)
\* what a step of a CMMS applier leaves alone
YaFrame ==
    UNCHANGED <<prev, vcom, run, faults, v_sites, v_equips, db_sites, db_equips, patch_sites,
                patch_equips, diff_vars, pay_vars, environ>>

\* y_sites = self.fetch_sites(); patch = diff_entities(y_sites, db_sites)
YaSitesFetch ==
    /\ pc = "ya_sites_fetch"
    /\ LET rl == RateLimitedCall(REQ_TS, now)
       IN  /\ now' = rl.now /\ REQ_TS' = rl.ts
           /\ UNCHANGED <<th, started, appended, entered>>
           /\ calls' = Append(calls, [Call("list_sites", None, None) EXCEPT !.t = rl.now])
    /\ patch' = diff_entities(YuFetchSites(yuman_sites), db_sites)
    /\ pc' = "ya_sites_add" /\ idx' = 1
    /\ UNCHANGED <<sites_mapping, equipments_mapping, yuman_sites, yuman_materials,
                   yuman_next, new_id>>
    /\ YaFrame

\* for s in patch.add: new_site = self.yc.create_site(payload)
YaSitesAdd ==
    /\ pc = "ya_sites_add" /\ idx <= Len(patch.add)
    /\ LET s == patch.add[idx]
           id == ToString(yuman_next)
       IN  /\ yuman_sites' = YuCreateSite(yuman_sites, id, CreateSitePayload(s))
           /\ new_id' = id
           /\ calls' = Append(calls, Call("create_site", SiteKey(s), id))
    /\ yuman_next' = yuman_next + 1
    /\ pc' = "ya_sites_wb"
    /\ UNCHANGED <<sites_mapping, equipments_mapping, yuman_materials, patch, idx,
                   rate_vars>>
    /\ YaFrame

\* propagate id in DB
YaSitesWriteBack ==
    /\ pc = "ya_sites_wb"
    /\ sites_mapping' =
          SbSetSiteId(sites_mapping, patch.add[idx].vcom_system_key, new_id)
    /\ new_id' = None
    /\ pc' = "ya_sites_add" /\ idx' = idx + 1
    /\ UNCHANGED <<equipments_mapping, yuman_sites, yuman_materials, yuman_next, patch,
                   rate_vars, calls>>
    /\ YaFrame

YaSitesAddDone ==
    /\ pc = "ya_sites_add" /\ idx > Len(patch.add)
    /\ pc' = "ya_sites_upd" /\ idx' = 1
    /\ UNCHANGED <<sites_mapping, equipments_mapping, yuman_sites, yuman_materials,
                   yuman_next, patch, new_id, rate_vars, calls>>
    /\ YaFrame

\* an update loop that takes the identifier from the DB entity of the pair
YaSitesUpdIdFromDb ==
    /\ pc = "ya_sites_upd" /\ idx <= Len(patch.update)
    /\ LET old == patch.update[idx][1]
           new == patch.update[idx][2]
           fields_patch == SiteFieldsPatch(old, new)
       IN  IF fields_patch # <<>>
           THEN /\ yuman_sites' = YuUpdateSite(yuman_sites, new.yuman_site_id, fields_patch)
                /\ calls' = Append(calls, Call("update_site", SiteKey(new), new.yuman_site_id))
           ELSE UNCHANGED <<yuman_sites, calls>>
    /\ idx' = idx + 1
    /\ UNCHANGED <<pc, sites_mapping, equipments_mapping, yuman_materials, yuman_next,
                   patch, new_id, rate_vars>>
    /\ YaFrame

\* for old, new in patch.update: update_site when fields_patch is not empty
YaSitesUpd ==
    /\ pc = "ya_sites_upd" /\ idx <= Len(patch.update)
    /\ LET old == patch.update[idx][1]
           new == patch.update[idx][2]
           fields_patch == SiteFieldsPatch(old, new)
       IN  IF fields_patch # <<>>
           THEN /\ yuman_sites' = YuUpdateSite(yuman_sites, old.yuman_site_id, fields_patch)
                /\ calls' = Append(calls, Call("update_site", SiteKey(new), old.yuman_site_id))
           ELSE UNCHANGED <<yuman_sites, calls>>
    /\ idx' = idx + 1
    /\ UNCHANGED <<pc, sites_mapping, equipments_mapping, yuman_materials, yuman_next,
                   patch, new_id, rate_vars>>
    /\ YaFrame

\* the end of the site applier, had it a loop over patch.delete
YaSitesUpdDoneDeleting ==
    /\ pc = "ya_sites_upd" /\ idx > Len(patch.update)
    /\ pc' = "ya_equips_fetch" /\ idx' = 1
    /\ yuman_sites' = SelectSeq(yuman_sites,
           LAMBDA s : ~\E d \in Range(patch.delete) : d.yuman_site_id = s.id)
    /\ UNCHANGED <<sites_mapping, equipments_mapping, yuman_materials,
                   yuman_next, patch, new_id, rate_vars, calls>>
    /\ YaFrame

YaSitesUpdDone ==
    /\ pc = "ya_sites_upd" /\ idx > Len(patch.update)
    /\ pc' = "ya_equips_fetch" /\ idx' = 1
    /\ UNCHANGED <<sites_mapping, equipments_mapping, yuman_sites, yuman_materials,
                   yuman_next, patch, new_id, rate_vars, calls>>
    /\ YaFrame

(***************************************************************************)
(* YumanAdapter.apply_equips_patch(db_equips)                              *)
(***************************************************************************)
\* y_equips = self.fetch_equips(): fetch_sites(), then _list_materials();
\* patch = diff_entities(y_equips, db_equips)
YaEquipsFetch ==
    /\ pc = "ya_equips_fetch"
    /\ LET rl1 == RateLimitedCall(REQ_TS, now)
           rl2 == RateLimitedCall(rl1.ts, rl1.now)
       IN  /\ now' = rl2.now /\ REQ_TS' = rl2.ts
           /\ UNCHANGED <<th, started, appended, entered>>
           /\ calls' = calls \o
                <<[Call("list_sites", None, None) EXCEPT !.t = rl1.now],
                  [Call("list_materials", None, None) EXCEPT !.t = rl2.now]>>
    /\ patch' = diff_entities(YuFetchEquips(YuFetchSites(yuman_sites), yuman_materials),
                              db_equips)
    /\ pc' = "ya_equips_add" /\ idx' = 1
    /\ UNCHANGED <<sites_mapping, equipments_mapping, yuman_sites, yuman_materials,
                   yuman_next, new_id>>
    /\ YaFrame

\* an add loop that stops at the first site without yuman_site_id (break for continue)
YaEquipsAddBreak ==
    /\ pc = "ya_equips_add" /\ idx <= Len(patch.add)
    /\ LET e == patch.add[idx]
           site_id == SbSiteRow(sites_mapping, e.site_key)
           id == ToString(yuman_next)
       IN  IF ~Truthy(site_id)
           THEN /\ idx' = Len(patch.add) + 1
                /\ UNCHANGED <<pc, yuman_materials, yuman_next, new_id, calls>>
           ELSE /\ yuman_materials' =
                      YuCreateMaterial(yuman_materials, id, CreateMaterialPayload(e, site_id))
                /\ new_id' = id
                /\ yuman_next' = yuman_next + 1
                /\ calls' = Append(calls, Call("create_material", EquipKey(e), id))
                /\ pc' = "ya_equips_wb"
                /\ UNCHANGED idx
    /\ UNCHANGED <<sites_mapping, equipments_mapping, yuman_sites, patch, rate_vars>>
    /\ YaFrame

\* an add loop that takes the site's identifier from the snapshot main() holds
YaEquipsAddFromSnapshot ==
    /\ pc = "ya_equips_add" /\ idx <= Len(patch.add)
    /\ LET e == patch.add[idx]
           site_id == IF Has(db_sites, e.site_key)
                      THEN Get(db_sites, e.site_key).yuman_site_id ELSE None
           id == ToString(yuman_next)
       IN  IF ~Truthy(site_id)
           THEN /\ idx' = idx + 1
                /\ UNCHANGED <<pc, yuman_materials, yuman_next, new_id, calls>>
           ELSE /\ yuman_materials' =
                      YuCreateMaterial(yuman_materials, id, CreateMaterialPayload(e, site_id))
                /\ new_id' = id
                /\ yuman_next' = yuman_next + 1
                /\ calls' = Append(calls, Call("create_material", EquipKey(e), id))
                /\ pc' = "ya_equips_wb"
                /\ UNCHANGED idx
    /\ UNCHANGED <<sites_mapping, equipments_mapping, yuman_sites, patch, rate_vars>>
    /\ YaFrame

\* for e in patch.add: read the site's row, skip or create_material
YaEquipsAdd ==
    /\ pc = "ya_equips_add" /\ idx <= Len(patch.add)
    /\ LET e == patch.add[idx]
           site_id == SbSiteRow(sites_mapping, e.site_key)
           id == ToString(yuman_next)
       IN  IF ~Truthy(site_id)
           THEN /\ idx' = idx + 1
                /\ UNCHANGED <<pc, yuman_materials, yuman_next, new_id, calls>>
           ELSE /\ yuman_materials' =
                      YuCreateMaterial(yuman_materials, id, CreateMaterialPayload(e, site_id))
                /\ new_id' = id
                /\ yuman_next' = yuman_next + 1
                /\ calls' = Append(calls, Call("create_material", EquipKey(e), id))
                /\ pc' = "ya_equips_wb"
                /\ UNCHANGED idx
    /\ UNCHANGED <<sites_mapping, equipments_mapping, yuman_sites, patch, rate_vars>>
    /\ YaFrame

\* propagate id
YaEquipsWriteBack ==
    /\ pc = "ya_equips_wb"
    /\ equipments_mapping' =
          SbSetMaterialId(equipments_mapping, patch.add[idx].site_key,
                          patch.add[idx].vcom_device_id, new_id)
    /\ new_id' = None
    /\ pc' = "ya_equips_add" /\ idx' = idx + 1
    /\ UNCHANGED <<sites_mapping, yuman_sites, yuman_materials, yuman_next, patch,
                   rate_vars, calls>>
    /\ YaFrame

YaEquipsAddDone ==
    /\ pc = "ya_equips_add" /\ idx > Len(patch.add)
    /\ pc' = "ya_equips_upd" /\ idx' = 1
    /\ UNCHANGED <<sites_mapping, equipments_mapping, yuman_sites, yuman_materials,
                   yuman_next, patch, new_id, rate_vars, calls>>
    /\ YaFrame

\* an update loop that also writes the CMMS identifier of the pair into the DB
YaEquipsUpdWriteBack ==
    /\ pc = "ya_equips_upd" /\ idx <= Len(patch.update)
    /\ LET old == patch.update[idx][1]
           new == patch.update[idx][2]
           payload == MaterialPayload(old, new)
       IN  /\ IF payload # <<>>
              THEN /\ yuman_materials' =
                         YuUpdateMaterial(yuman_materials, old.yuman_material_id, payload)
                   /\ calls' = Append(calls,
                         Call("update_material", EquipKey(new), old.yuman_material_id))
              ELSE UNCHANGED <<yuman_materials, calls>>
           /\ equipments_mapping' =
                 SbSetMaterialId(equipments_mapping, new.site_key, new.vcom_device_id,
                                 old.yuman_material_id)
    /\ idx' = idx + 1
    /\ UNCHANGED <<pc, sites_mapping, yuman_sites, yuman_next,
                   patch, new_id, rate_vars>>
    /\ YaFrame

\* for old, new in patch.update: update_material when the payload is not empty
YaEquipsUpd ==
    /\ pc = "ya_equips_upd" /\ idx <= Len(patch.update)
    /\ LET old == patch.update[idx][1]
           new == patch.update[idx][2]
           payload == MaterialPayload(old, new)
       IN  IF payload # <<>>
           THEN /\ yuman_materials' =
                      YuUpdateMaterial(yuman_materials, old.yuman_material_id, payload)
                /\ calls' = Append(calls,
                      Call("update_material", EquipKey(new), old.yuman_material_id))
           ELSE UNCHANGED <<yuman_materials, calls>>
    /\ idx' = idx + 1
    /\ UNCHANGED <<pc, sites_mapping, equipments_mapping, yuman_sites, yuman_next,
                   patch, new_id, rate_vars>>
    /\ YaFrame

\* the updates are through: main() logs the end of the synchronisation
YaEquipsUpdDone ==
    /\ pc = "ya_equips_upd" /\ idx > Len(patch.update)
    /\ pc' = "done" /\ idx' = 1
    /\ UNCHANGED <<sites_mapping, equipments_mapping, yuman_sites, yuman_materials,
                   yuman_next, patch, new_id, rate_vars, calls>>
    /\ YaFrame

(***************************************************************************)
(* An adapter call raises: nothing catches it, the process ends            *)
(***************************************************************************)
\* the positions whose next step is a call to an external system
CallPcs ==
    { p \in {"vcom_snapshot", "db_fetch_sites", "db_fetch_equips", "refresh_sites",
             "refresh_equips", "ya_sites_fetch", "ya_sites_wb", "ya_equips_fetch",
             "ya_equips_wb"} : TRUE }
    \cup (IF idx <= Len(patch_sites.add) THEN {"sb_sites_add"} ELSE {})
    \cup (IF idx <= Len(patch_sites.update) THEN {"sb_sites_upd"} ELSE {})
    \cup (IF idx <= Len(patch_equips.add) THEN {"sb_equips_add"} ELSE {})
    \cup (IF idx <= Len(patch_equips.update) THEN {"sb_equips_upd"} ELSE {})
    \cup (IF idx <= Len(patch.add) THEN {"ya_sites_add", "ya_equips_add"} ELSE {})
    \cup (IF idx <= Len(patch.update) THEN {"ya_sites_upd", "ya_equips_upd"} ELSE {})

\* Fail, but undoing the CMMS creations of the run that fails
FailRollback ==
    /\ pc \in CallPcs
    /\ faults < MaxFaults
    /\ faults' = faults + 1
    /\ pc' = "aborted"
    /\ yuman_sites' = SelectSeq(yuman_sites,
           LAMBDA s : ~\E c \in Range(calls) :
                         c.run = run /\ c.op = "create_site" /\ c.id = s.id)
    /\ UNCHANGED <<vcom, sites_mapping, equipments_mapping, yuman_materials, yuman_next,
                   run, v_sites, v_equips, db_sites, db_equips, patch_sites,
                   patch_equips, patch, idx, new_id, rate_vars, hist_vars, diff_vars, pay_vars, environ>>

Fail ==
    /\ pc \in CallPcs
    /\ faults < MaxFaults
    /\ faults' = faults + 1
    /\ pc' = "aborted"
    /\ UNCHANGED <<world_vars, run, v_sites, v_equips, db_sites, db_equips, patch_sites,
                   patch_equips, patch, idx, new_id, rate_vars, hist_vars, diff_vars, pay_vars, environ>>

Next ==
    \/ StartRun \/ InitClients \/ FetchVcom \/ FetchDbSites \/ FetchDbEquips \/ Diff
    \/ SbSitesAdd \/ SbSitesAddDone \/ SbSitesUpd \/ SbSitesUpdDone
    \/ SbEquipsAdd \/ SbEquipsAddDone \/ SbEquipsUpd \/ SbEquipsUpdDone
    \/ RefreshSites \/ RefreshEquips
    \/ YaSitesFetch \/ YaSitesAdd \/ YaSitesWriteBack \/ YaSitesAddDone
    \/ YaSitesUpd \/ YaSitesUpdDone
    \/ YaEquipsFetch \/ YaEquipsAdd \/ YaEquipsWriteBack \/ YaEquipsAddDone
    \/ YaEquipsUpd \/ YaEquipsUpdDone
    \/ Fail

Spec == Init /\ [][Next]_vars

(***************************************************************************)
(* SpecRate, SpecRateConc: callers of functions wrapped by @rate_limited,  *)
(* one step per statement of the wrapper, the clock ticking in between     *)
(***************************************************************************)
MaxTime == 7
MaxCalls == 4

OneCaller == {1}
TwoCallers == {1, 2}

Idle == [pc |-> "idle", now |-> 0, kept |-> <<>>, wake |-> 0, slept |-> FALSE,
         raised |-> FALSE]

RateFrame == UNCHANGED <<world_vars, main_vars, hist_vars, diff_vars, pay_vars, environ>>

\* the timestamps of ts that are younger than the window at the clock's time
Young(ts) == SelectSeq(ts, LAMBDA t : now - t < Window)

\* now = time.time()
Enter(c) ==
    /\ th[c].pc = "idle"
    /\ entered < MaxCalls
    /\ entered' = entered + 1
    /\ th' = [th EXCEPT ![c] = [Idle EXCEPT !.pc = "evict", !.now = now]]
    /\ UNCHANGED <<REQ_TS, now, started, appended>> /\ RateFrame

\* the list comprehension [t for t in _REQ_TS if now - t < 60] reads the window
EvictRead(c) ==
    /\ th[c].pc = "evict"
    /\ th' = [th EXCEPT ![c].pc = "assign", ![c].kept = Evict(REQ_TS, th[c].now)]
    /\ UNCHANGED <<REQ_TS, now, started, appended, entered>> /\ RateFrame

\* _REQ_TS[:] = ... writes it
EvictWrite(c) ==
    /\ th[c].pc = "assign"
    /\ REQ_TS' = th[c].kept
    /\ th' = [th EXCEPT ![c].pc = "check", ![c].kept = <<>>]
    /\ UNCHANGED <<now, started, appended, entered>> /\ RateFrame

\* if len(_REQ_TS) >= RATE: sleep_for = ...; time.sleep(sleep_for)
Check(c) ==
    /\ th[c].pc = "check"
    /\ IF AtCeiling(REQ_TS)
       THEN th' = [th EXCEPT ![c].pc = "sleep", ![c].now = 0,
                             ![c].wake = now + SleepFor(REQ_TS, th[c].now),
                             ![c].slept = TRUE]
       ELSE th' = [th EXCEPT ![c].pc = "call", ![c].now = 0]
    /\ UNCHANGED <<REQ_TS, now, started, appended, entered>> /\ RateFrame

\* a wrapper that tests the window again after its sleep
WakeRecheck(c) ==
    /\ th[c].pc = "sleep"
    /\ now >= th[c].wake
    /\ th' = [th EXCEPT ![c].pc = "check", ![c].wake = 0]
    /\ UNCHANGED <<REQ_TS, now, started, appended, entered>> /\ RateFrame

\* time.sleep returns, not before the time asked for has passed
Wake(c) ==
    /\ th[c].pc = "sleep"
    /\ now >= th[c].wake
    /\ th' = [th EXCEPT ![c].pc = "call", ![c].wake = 0]
    /\ UNCHANGED <<REQ_TS, now, started, appended, entered>> /\ RateFrame

\* return func(*a, **k): the wrapped call starts; it will return or raise
CallFunc(c) ==
    /\ th[c].pc = "call"
    /\ \E r \in BOOLEAN : th' = [th EXCEPT ![c].pc = "finally", ![c].raised = r]
    /\ started' = Append(started, [t |-> now, seen |-> Len(Young(appended))])
    /\ UNCHANGED <<REQ_TS, now, appended, entered>> /\ RateFrame

\* an append written after the call, outside any finally clause
RecordUnlessRaised(c) ==
    /\ th[c].pc = "finally"
    /\ REQ_TS' = IF th[c].raised THEN REQ_TS ELSE Append(REQ_TS, now)
    /\ appended' = IF th[c].raised THEN appended ELSE Append(appended, now)
    /\ th' = [th EXCEPT ![c] = [Idle EXCEPT !.raised = th[c].raised]]
    /\ UNCHANGED <<now, started, entered>> /\ RateFrame

\* finally: _REQ_TS.append(time.time()), the call having returned or raised;
\* the caller is left with the result or with the exception
Record(c) ==
    /\ th[c].pc = "finally"
    /\ REQ_TS' = Append(REQ_TS, now)
    /\ appended' = Append(appended, now)
    /\ th' = [th EXCEPT ![c] = [Idle EXCEPT !.raised = th[c].raised]]
    /\ UNCHANGED <<now, started, entered>> /\ RateFrame

\* the clock advances; the histories keep what is younger than the window
Tick ==
    /\ now < MaxTime
    /\ now' = now + 1
    /\ started' = SelectSeq(started, LAMBDA s : now + 1 - s.t < Window)
    /\ appended' = SelectSeq(appended, LAMBDA t : now + 1 - t < Window)
    /\ UNCHANGED <<REQ_TS, th, entered>> /\ RateFrame

InitRate(callers) ==
    /\ MainStart(<<>>, NoCmms)
    /\ DiffIdle /\ PayIdle
    /\ th = [c \in callers |-> Idle]
    /\ started = <<>> /\ appended = <<>> /\ entered = 0

NextRate ==
    \/ \E c \in DOMAIN th : Enter(c)
    \/ \E c \in DOMAIN th : EvictRead(c)
    \/ \E c \in DOMAIN th : EvictWrite(c)
    \/ \E c \in DOMAIN th : Check(c)
    \/ \E c \in DOMAIN th : Wake(c)
    \/ \E c \in DOMAIN th : CallFunc(c)
    \/ \E c \in DOMAIN th : Record(c)
    \/ Tick

SpecRate == InitRate(OneCaller) /\ [][NextRate]_vars

SpecRateConc == InitRate(TwoCallers) /\ [][NextRate]_vars

(***************************************************************************)
(* SpecDiff: diff_entities on every pair of bounded Site snapshots          *)
(***************************************************************************)
MaxSnap == 2

DiffKeys == {"S1", "S2", "S3"}

DiffSites ==
    {Site(k, "A", None, None, p, None, None, y) :
        k \in DiffKeys, p \in {None, "10"}, y \in {None, "1"}}

\* snapshots as the adapters build them: every entity under its own key
DiffSnapshots ==
    {s \in UNION {[1..n -> {<<SiteKey(e), e>> : e \in DiffSites}] : n \in 0..MaxSnap} :
        \A i, j \in DOMAIN s : i # j => s[i][1] # s[j][1]}

InitDiff ==
    /\ MainStart(<<>>, NoCmms) /\ RateIdle /\ PayIdle
    /\ cur_in \in DiffSnapshots
    /\ tgt_in \in DiffSnapshots
    /\ d_out = NoPatch
    /\ d_pc = "call"

DiffStep ==
    /\ d_pc = "call"
    /\ d_out' = diff_entities(cur_in, tgt_in)
    /\ d_pc' = "returned"
    /\ UNCHANGED <<cur_in, tgt_in, world_vars, main_vars, rate_vars, hist_vars, pay_vars, environ>>

NextDiff == DiffStep

SpecDiff == InitDiff /\ [][NextDiff]_vars

(***************************************************************************)
(* C1: diff_entities partitions the keys of current and target: the add    *)
(* keys are keys(target) \ keys(current), the delete keys are              *)
(* keys(current) \ keys(target), a key of both is in update iff the two     *)
(* entities differ in a field, and no key is in two of the sequences or     *)
(* twice in one.                                                           *)
(***************************************************************************)
AddKeys(p) == {SiteKey(p.add[i]) : i \in DOMAIN p.add}
UpdKeys(p) == {SiteKey(p.update[i][2]) : i \in DOMAIN p.update}
DelKeys(p) == {SiteKey(p.delete[i]) : i \in DOMAIN p.delete}

C1_DiffPartition ==
    d_pc = "returned" =>
        /\ AddKeys(d_out) = Keys(tgt_in) \ Keys(cur_in)
        /\ DelKeys(d_out) = Keys(cur_in) \ Keys(tgt_in)
        /\ UpdKeys(d_out) =
             {k \in Keys(cur_in) \cap Keys(tgt_in) :
                 \E f \in DOMAIN Get(cur_in, k) : Get(cur_in, k)[f] # Get(tgt_in, k)[f]}
        /\ Len(d_out.add) = Cardinality(AddKeys(d_out))
        /\ Len(d_out.update) = Cardinality(UpdKeys(d_out))
        /\ Len(d_out.delete) = Cardinality(DelKeys(d_out))
        /\ AddKeys(d_out) \cap UpdKeys(d_out) = {}
        /\ AddKeys(d_out) \cap DelKeys(d_out) = {}
        /\ UpdKeys(d_out) \cap DelKeys(d_out) = {}
        /\ \A i \in DOMAIN d_out.update :
              /\ d_out.update[i][1] = Get(cur_in, SiteKey(d_out.update[i][2]))
              /\ d_out.update[i][2] = Get(tgt_in, SiteKey(d_out.update[i][2]))

\* a diff with an add, an update and a delete at once
C1_Witness ==
    /\ d_pc = "returned"
    /\ d_out.add # <<>> /\ d_out.update # <<>> /\ d_out.delete # <<>>

(***************************************************************************)
(* C2: diff_entities(A, A) is empty for every snapshot A, also when the    *)
(* entities carry None in their optional fields.                           *)
(***************************************************************************)
C2_DiffSelfEmpty ==
    (d_pc = "returned" /\ cur_in = tgt_in) =>
        /\ is_empty(d_out)
        /\ d_out.add = <<>> /\ d_out.update = <<>> /\ d_out.delete = <<>>

C2_Witness ==
    /\ d_pc = "returned"
    /\ cur_in = tgt_in
    /\ Len(cur_in) = 2
    /\ \E i \in DOMAIN cur_in : cur_in[i][2].yuman_site_id = None
    /\ \E i \in DOMAIN cur_in : cur_in[i][2].yuman_site_id # None
    /\ is_empty(d_out)

(***************************************************************************)
(* Claims about the runs of main()                                         *)
(***************************************************************************)
Hop1ApplyPcs == {"sb_sites_add", "sb_sites_upd", "sb_equips_add", "sb_equips_upd"}

\* the positions of the CMMS appliers between two patch items, and after them
Hop2ItemPcs ==
    {"ya_sites_add", "ya_sites_upd", "ya_equips_fetch", "ya_equips_add",
     "ya_equips_upd", "done"}

CreateCalls(op) == SelectSeq(calls, LAMBDA c : c.op = op)

(***************************************************************************)
(* C3: once a row of sites_mapping holds a yuman_site_id, or a row of      *)
(* equipments_mapping a yuman_material_id, no step of any run changes      *)
(* that field: it is never reset to None and never replaced.  Stated of    *)
(* the runs in which no adapter call raises.                               *)
(***************************************************************************)
C3_ForeignIdImmutable ==
    [][ faults' = 0 =>
        /\ \A i \in DOMAIN sites_mapping :
              sites_mapping[i].yuman_site_id # None =>
                  sites_mapping'[i].yuman_site_id = sites_mapping[i].yuman_site_id
        /\ \A i \in DOMAIN equipments_mapping :
              equipments_mapping[i].yuman_material_id # None =>
                  equipments_mapping'[i].yuman_material_id =
                      equipments_mapping[i].yuman_material_id ]_vars

(***************************************************************************)
(* C4: the DB -> CMMS hop issues no create call for an entity whose DB      *)
(* record already carries a foreign identifier, and over all runs no DB    *)
(* key is created twice in the CMMS, whatever the equipment's category.    *)
(* Stated of the runs in which no adapter call raises.                     *)
(***************************************************************************)
C4_NoRecreation ==
    faults = 0 =>
    /\ pc = "ya_sites_wb" =>
          \A i \in DOMAIN sites_mapping :
              sites_mapping[i].vcom_system_key = SiteKey(patch.add[idx]) =>
                  sites_mapping[i].yuman_site_id = None
    /\ pc = "ya_equips_wb" =>
          \A i \in DOMAIN equipments_mapping :
              <<equipments_mapping[i].vcom_system_key,
                equipments_mapping[i].vcom_device_id>> = EquipKey(patch.add[idx]) =>
                  equipments_mapping[i].yuman_material_id = None
    /\ \A op \in {"create_site", "create_material"} :
          \A i, j \in DOMAIN CreateCalls(op) :
              i # j => CreateCalls(op)[i].key # CreateCalls(op)[j].key

(***************************************************************************)
(* C5: in the Monitoring -> DB hop an entity whose monitoring attributes   *)
(* all equal the DB record's is not in update, also when the DB record      *)
(* has a foreign identifier; after a complete run, a run fed the same       *)
(* monitoring data computes a patch with empty add and empty update.       *)
(* Stated of the runs in which no adapter call raises.                     *)
(***************************************************************************)
SameButForeignId(old, new) ==
    \A f \in DOMAIN old \ {"yuman_site_id", "yuman_material_id"} : old[f] = new[f]

C5_TargetCarriesForeignId ==
    (faults = 0 /\ pc \in Hop1ApplyPcs) =>
        /\ \A i \in DOMAIN patch_sites.update :
              ~SameButForeignId(patch_sites.update[i][1], patch_sites.update[i][2])
        /\ \A i \in DOMAIN patch_equips.update :
              ~SameButForeignId(patch_equips.update[i][1], patch_equips.update[i][2])
        /\ (prev.done /\ prev.vcom = vcom) =>
              /\ patch_sites.add = <<>> /\ patch_sites.update = <<>>
              /\ patch_equips.add = <<>> /\ patch_equips.update = <<>>

(***************************************************************************)
(* C6: the Monitoring -> DB hop reports a DB key that the monitoring        *)
(* snapshot lacks in the patch's delete sequence, and no step of            *)
(* apply_sites_patch / apply_equips_patch removes or alters its row.       *)
(***************************************************************************)
C6_Reported ==
    pc \in Hop1ApplyPcs =>
        /\ \A k \in Keys(db_sites) \ Keys(v_sites) :
              Get(db_sites, k) \in Range(patch_sites.delete)
        /\ \A k \in Keys(db_equips) \ Keys(v_equips) :
              Get(db_equips, k) \in Range(patch_equips.delete)

C6_RowKept ==
    pc \in Hop1ApplyPcs =>
        /\ \A i \in DOMAIN sites_mapping :
              sites_mapping[i].vcom_system_key \notin Keys(v_sites) =>
                  /\ i \in DOMAIN sites_mapping'
                  /\ sites_mapping'[i] = sites_mapping[i]
        /\ \A i \in DOMAIN equipments_mapping :
              <<equipments_mapping[i].vcom_system_key,
                equipments_mapping[i].vcom_device_id>> \notin Keys(v_equips) =>
                  /\ i \in DOMAIN equipments_mapping'
                  /\ equipments_mapping'[i] = equipments_mapping[i]

C6_DeletesNeverApplied == []C6_Reported /\ [][C6_RowKept]_vars

\* both appliers are through, each patch named a row to delete, other rows
\* were written, and the rows to delete are still stored
C6_Witness ==
    /\ pc = "refresh_sites"
    /\ patch_sites.delete # <<>> /\ patch_equips.delete # <<>>
    /\ patch_sites.update # <<>> /\ patch_equips.add # <<>>
    /\ \A i \in DOMAIN patch_sites.delete : patch_sites.delete[i] \in Range(sites_mapping)
    /\ \A i \in DOMAIN patch_equips.delete :
          EquipRow(patch_equips.delete[i]) \in Range(equipments_mapping)

(***************************************************************************)
(* C7: in the DB -> CMMS hop, whenever the applier stands between two       *)
(* patch items or has finished, every identifier a create call of this     *)
(* run returned is stored in the DB row of the created entity's key, and   *)
(* the rows of all other keys hold the identifier they had when the hop    *)
(* began.                                                                  *)
(***************************************************************************)
CreatedId(op, key) ==
    LET mine == SelectSeq(calls, LAMBDA c : c.run = run /\ c.op = op /\ c.key = key)
    IN  IF mine = <<>> THEN None ELSE mine[Len(mine)].id

C7_IdWrittenBack ==
    pc \in Hop2ItemPcs =>
        /\ \A i \in DOMAIN sites_mapping :
              LET r == sites_mapping[i]
                  created == CreatedId("create_site", r.vcom_system_key)
              IN  r.yuman_site_id =
                     IF created # None THEN created
                     ELSE Get(db_sites, r.vcom_system_key).yuman_site_id
        /\ \A i \in DOMAIN equipments_mapping :
              LET r == equipments_mapping[i]
                  k == <<r.vcom_system_key, r.vcom_device_id>>
                  created == CreatedId("create_material", k)
              IN  r.yuman_material_id =
                     IF created # None THEN created
                     ELSE Get(db_equips, k).yuman_material_id

\* the hop is through; it created a site and a material, and a row of another
\* key kept another identifier
C7_Witness ==
    /\ pc = "done"
    /\ \E i, j \in DOMAIN sites_mapping :
          /\ CreatedId("create_site", sites_mapping[i].vcom_system_key) # None
          /\ CreatedId("create_site", sites_mapping[j].vcom_system_key) = None
          /\ sites_mapping[j].yuman_site_id # None
    /\ \E i, j \in DOMAIN equipments_mapping :
          /\ CreatedId("create_material", <<equipments_mapping[i].vcom_system_key,
                                           equipments_mapping[i].vcom_device_id>>) # None
          /\ CreatedId("create_material", <<equipments_mapping[j].vcom_system_key,
                                           equipments_mapping[j].vcom_device_id>>) = None
          /\ equipments_mapping[j].yuman_material_id # None

(***************************************************************************)
(* C8: with one sequential caller, whatever the gaps between its calls and *)
(* however long a call lasts, no trailing window holds more than RATE      *)
(* calls, and a call starts only when fewer than RATE recorded calls are   *)
(* younger than the window.                                                *)
(***************************************************************************)
C8_Ceiling ==
    /\ Cardinality({i \in DOMAIN started : now - started[i].t < Window}) <= RATE
    /\ \A i \in DOMAIN started : started[i].seen < RATE

\* the caller found the window full, slept, and its call fills the window again
C8_Witness ==
    \E c \in DOMAIN th :
        /\ th[c].pc = "finally" /\ th[c].slept
        /\ Cardinality({i \in DOMAIN started : now - started[i].t < Window}) = RATE

(***************************************************************************)
(* C9: every outbound call of the CMMS adapter is counted by the rate      *)
(* limiter, so that no trailing window of a run holds more than RATE       *)
(* calls to the CMMS, creations and updates included.                      *)
(***************************************************************************)
C9_AllCmmsCallsLimited ==
    Cardinality({i \in DOMAIN calls :
        calls[i].run = run /\ now - calls[i].t < Window}) <= RATE

(***************************************************************************)
(* C10: with two concurrent callers, under every interleaving of the       *)
(* wrapper's steps, no trailing window holds more than RATE calls and no   *)
(* timestamp younger than the window is missing from the shared window.    *)
(***************************************************************************)
Count(s, x) == Cardinality({i \in DOMAIN s : s[i] = x})

C10_ConcurrentCeiling ==
    /\ Cardinality({i \in DOMAIN started : now - started[i].t < Window}) <= RATE
    /\ \A t \in Range(Young(appended)) : Count(REQ_TS, t) >= Count(appended, t)

(***************************************************************************)
(* C11: within a run the hops are sequential.  The CMMS is read or written *)
(* only by the steps of the DB -> CMMS hop, that hop is entered only from  *)
(* the DB re-fetch, and while it runs its target is the re-fetched DB      *)
(* snapshot: every Site and Equipment the Monitoring -> DB hop of this run *)
(* inserted or updated is in db_sites / db_equips as written, and every    *)
(* item of the hop's patch is taken from them.                             *)
(***************************************************************************)
Hop2Pcs ==
    {"ya_sites_fetch", "ya_sites_add", "ya_sites_wb", "ya_sites_upd",
     "ya_equips_fetch", "ya_equips_add", "ya_equips_wb", "ya_equips_upd"}

\* the target entities a patch's add and update sequences carry
PatchTargets(p) == Range(p.add) \cup {p.update[i][2] : i \in DOMAIN p.update}

C11_TargetIsRefetched ==
    pc \in Hop2Pcs =>
        /\ PatchTargets(patch_sites) \subseteq Range(Values(db_sites))
        /\ PatchTargets(patch_equips) \subseteq Range(Values(db_equips))
        /\ pc \in {"ya_sites_add", "ya_sites_wb", "ya_sites_upd"} =>
              PatchTargets(patch) \subseteq Range(Values(db_sites))
        /\ pc \in {"ya_equips_add", "ya_equips_wb", "ya_equips_upd"} =>
              PatchTargets(patch) \subseteq Range(Values(db_equips))

C11_CmmsOnlyInHop2 ==
    /\ (calls' # calls \/ yuman_sites' # yuman_sites
          \/ yuman_materials' # yuman_materials) => pc \in Hop2Pcs
    /\ (pc' \in Hop2Pcs /\ pc \notin Hop2Pcs) =>
          /\ pc = "refresh_equips" /\ pc' = "ya_sites_fetch"
          /\ db_sites = SbFetchSites(sites_mapping)
          /\ db_equips' = SbFetchEquipments(equipments_mapping)

PayPowers == {None, "0", "10", "12"}
PayDates == {None, "", "2020-01-01", "2021-06-30"}
PayModels == {None, "", "Legacy", "Acme X1"}

\* Site pairs as diff_entities(y_sites, db_sites) pairs them: old has its CMMS id
PaySitePairs ==
    {pr \in {<<Site("S1", "Alpha", None, None, po, dto, None, "1"),
               Site("S1", "Alpha", None, None, pn, dtn, None, y)>> :
                 po \in PayPowers, dto \in PayDates, pn \in PayPowers, dtn \in PayDates,
                 y \in {None, "1"}} :
        Differs(pr[1], pr[2])}

PayEquipPairs ==
    {pr \in {<<Equipment("S1", c, "t", d, "Eq", None, mo, None, None, None, "2"),
               Equipment("S1", c, "t", d, "Eq", None, mn, None, None, None, y)>> :
                 c \in {CAT_INVERTER, CAT_MODULE, CAT_STRING}, d \in {"I1"},
                 mo \in PayModels, mn \in PayModels, y \in {None, "2"}} :
        Differs(pr[1], pr[2])}

InitPay ==
    /\ MainStart(<<>>, NoCmms) /\ RateIdle /\ DiffIdle
    /\ p_out = <<>>
    /\ \/ p_pc = "site" /\ \E pr \in PaySitePairs : p_old = pr[1] /\ p_new = pr[2]
       \/ p_pc = "equip" /\ \E pr \in PayEquipPairs : p_old = pr[1] /\ p_new = pr[2]

PayFrame ==
    UNCHANGED <<world_vars, main_vars, rate_vars, prev, diff_vars, p_old, p_new, environ>>

\* for old, new in patch.update: ... if fields_patch: self.yc.update_site(...)
PaySiteUpdate ==
    /\ p_pc = "site"
    /\ p_out' = SiteFieldsPatch(p_old, p_new)
    /\ calls' = IF SiteFieldsPatch(p_old, p_new) # <<>>
                THEN Append(calls, Call("update_site", SiteKey(p_new), p_old.yuman_site_id))
                ELSE calls
    /\ p_pc' = "site_done"
    /\ PayFrame

\* for old, new in patch.update: ... if payload: self.yc.update_material(...)
PayEquipUpdate ==
    /\ p_pc = "equip"
    /\ p_out' = MaterialPayload(p_old, p_new)
    /\ calls' = IF MaterialPayload(p_old, p_new) # <<>>
                THEN Append(calls,
                        Call("update_material", EquipKey(p_new), p_old.yuman_material_id))
                ELSE calls
    /\ p_pc' = "equip_done"
    /\ PayFrame

NextPay == PaySiteUpdate \/ PayEquipUpdate

SpecPayload == InitPay /\ [][NextPay]_vars

(***************************************************************************)
(* C12 as stated: the Site payload holds the rated power iff the powers    *)
(* differ and the new one is not None, the commission date iff the dates   *)
(* differ and the new one is not None, and nothing else; update_site is    *)
(* called iff the payload is not empty.                                    *)
(***************************************************************************)
C12_SitePayloadNonNull ==
    p_pc = "site_done" =>
        /\ Has(p_out, F_POWER) <=>
              (p_old.nominal_power # p_new.nominal_power /\ p_new.nominal_power # None)
        /\ Has(p_out, F_DATE) <=>
              (p_old.commission_date # p_new.commission_date
                 /\ p_new.commission_date # None)
        /\ Keys(p_out) \subseteq {F_POWER, F_DATE}
        /\ (calls # <<>>) <=> (p_out # <<>>)

(***************************************************************************)
(* C12 amended: as above, but the commission date is in the payload iff    *)
(* the dates differ and the new one is neither None nor empty; each field  *)
(* carries the new value and appears once.                                 *)
(***************************************************************************)
C12_SitePayload ==
    p_pc = "site_done" =>
        /\ Has(p_out, F_POWER) <=>
              (p_old.nominal_power # p_new.nominal_power /\ p_new.nominal_power # None)
        /\ Has(p_out, F_DATE) <=>
              (p_old.commission_date # p_new.commission_date
                 /\ p_new.commission_date \notin {None, ""})
        /\ Keys(p_out) \subseteq {F_POWER, F_DATE}
        /\ Len(p_out) = Cardinality(Keys(p_out))
        /\ Has(p_out, F_POWER) => Get(p_out, F_POWER) = p_new.nominal_power
        /\ Has(p_out, F_DATE) => Get(p_out, F_DATE) = p_new.commission_date
        /\ (calls # <<>>) <=> (p_out # <<>>)
        /\ calls # <<>> => calls[1].op = "update_site" /\ calls[1].id = p_old.yuman_site_id

\* the new power 0 is pushed while the new, empty date is not
C12_Witness ==
    /\ p_pc = "site_done"
    /\ p_new.nominal_power = "0" /\ p_old.nominal_power = "10"
    /\ p_new.commission_date = "" /\ p_old.commission_date = "2020-01-01"
    /\ Keys(p_out) = {F_POWER}
    /\ Len(calls) = 1

(***************************************************************************)
(* C13: the Equipment payload holds the model iff old.model is None or     *)
(* empty and new.model is neither; then it carries new.model.  A populated *)
(* CMMS model is never in the payload.  Besides the model the payload      *)
(* holds at most the fields entry, and only for an inverter.               *)
(* update_material is called iff the payload is not empty.                 *)
(***************************************************************************)
C13_EquipPayload ==
    p_pc = "equip_done" =>
        /\ Has(p_out, "model") <=>
              (p_old.model \in {None, ""} /\ p_new.model \notin {None, ""})
        /\ Has(p_out, "model") => Get(p_out, "model") = p_new.model
        /\ p_old.model \notin {None, ""} => ~Has(p_out, "model")
        /\ Keys(p_out) \subseteq {"model", "fields"}
        /\ Has(p_out, "fields") =>
              /\ p_old.category_id = CAT_INVERTER
              /\ Keys(Get(p_out, "fields")) = {CUSTOM_INVERTER_ID}
        /\ (calls # <<>>) <=> (p_out # <<>>)
        /\ calls # <<>> =>
              calls[1].op = "update_material" /\ calls[1].id = p_old.yuman_material_id

\* a populated model facing another model: nothing is sent
C13_Witness ==
    /\ p_pc = "equip_done"
    /\ p_old.model = "Legacy" /\ p_new.model = "Acme X1"
    /\ p_out = <<>> /\ calls = <<>>

(***************************************************************************)
(* C14: an Equipment add whose site row holds no yuman_site_id is skipped: *)
(* the step calls nothing, writes nothing and moves to the next item; the  *)
(* hop goes on, and when it has finished every other item of add was       *)
(* created and written back, and every update pair with something to push  *)
(* was pushed.                                                             *)
(***************************************************************************)
\* the add at hand is one the applier skips
Skipping ==
    /\ pc = "ya_equips_add" /\ idx <= Len(patch.add)
    /\ ~Truthy(SbSiteRow(sites_mapping, patch.add[idx].site_key))

RunCalls(op) == SelectSeq(calls, LAMBDA c : c.run = run /\ c.op = op)

C14_SkipStep ==
    (Skipping /\ pc' # "aborted") =>
        /\ pc' = "ya_equips_add" /\ idx' = idx + 1
        /\ UNCHANGED <<world_vars, calls, patch>>

C14_RestProcessed ==
    pc = "done" =>
        /\ \A i \in DOMAIN patch.add :
              LET e == patch.add[i]
                  made == SelectSeq(RunCalls("create_material"),
                                    LAMBDA c : c.key = EquipKey(e))
              IN  IF Truthy(SbSiteRow(sites_mapping, e.site_key))
                  THEN /\ Len(made) = 1
                       /\ \E r \in Range(equipments_mapping) :
                             /\ <<r.vcom_system_key, r.vcom_device_id>> = EquipKey(e)
                             /\ r.yuman_material_id = made[1].id
                  ELSE made = <<>>
        /\ \A i \in DOMAIN patch.update :
              LET old == patch.update[i][1]
                  new == patch.update[i][2]
              IN  MaterialPayload(old, new) # <<>> =>
                     \E c \in Range(RunCalls("update_material")) : c.key = EquipKey(new)

C14_SkipAndContinue == [](C14_RestProcessed) /\ [][C14_SkipStep]_vars

\* the hop is through: it skipped an add, created a later one, and pushed an update
C14_Witness ==
    /\ pc = "done"
    /\ \E i, j \in DOMAIN patch.add :
          /\ i < j
          /\ ~Truthy(SbSiteRow(sites_mapping, patch.add[i].site_key))
          /\ Truthy(SbSiteRow(sites_mapping, patch.add[j].site_key))
    /\ \E i \in DOMAIN patch.update :
          MaterialPayload(patch.update[i][1], patch.update[i][2]) # <<>>

(***************************************************************************)
(* Round trips: a hop's destination re-fetched after the patch was applied *)
(***************************************************************************)
\* the DB re-fetched after the Monitoring -> DB hop, against that hop's target
DbRoundTrip ==
    pc = "ya_sites_fetch" =>
        LET ps == diff_entities(db_sites, v_sites)
            pe == diff_entities(db_equips, v_equips)
        IN  /\ ps.add = <<>> /\ ps.update = <<>>
            /\ pe.add = <<>> /\ pe.update = <<>>

\* the CMMS as a fetch after the DB -> CMMS hop would see it
RefetchedSites == YuFetchSites(yuman_sites)
RefetchedEquips == YuFetchEquips(YuFetchSites(yuman_sites), yuman_materials)

\* the CMMS held a populated model for key k when this hop's patch was computed
ModelWasSet(k) ==
    \E i \in DOMAIN patch.update :
        EquipKey(patch.update[i][2]) = k /\ Truthy(patch.update[i][1].model)

EquipModelRoundTrip ==
    \A k \in Keys(db_equips) \cap Keys(RefetchedEquips) :
        (Truthy(Get(db_equips, k).model) /\ ~ModelWasSet(k)) =>
            Get(RefetchedEquips, k).model = Get(db_equips, k).model

Resumed == run >= 2 /\ ~prev.done /\ prev.vcom = vcom

C16_ResumeCompletes ==
    (pc = "done" /\ Resumed) =>
        /\ \A op \in {"create_site", "create_material"} :
              \A i, j \in DOMAIN CreateCalls(op) :
                  i # j => CreateCalls(op)[i].key # CreateCalls(op)[j].key
        /\ \A c \in Range(CreateCalls("create_site")) :
              \E r \in Range(sites_mapping) :
                  r.vcom_system_key = c.key /\ r.yuman_site_id = c.id
        /\ \A c \in Range(CreateCalls("create_material")) :
              \E r \in Range(equipments_mapping) :
                  <<r.vcom_system_key, r.vcom_device_id>> = c.key
                     /\ r.yuman_material_id = c.id
        /\ \A k \in Keys(v_sites) :
              \E r \in Range(sites_mapping) :
                  r.vcom_system_key = k /\ r.yuman_site_id # None

(***************************************************************************)
(* C17: an error raised by an adapter call aborts the run at that point:   *)
(* the step that aborts leaves the DB, the CMMS and the log of calls as    *)
(* the calls that succeeded left them, and after the abort the only step   *)
(* is the start of another run, so the failed call is not retried and no   *)
(* later call of the aborted run is issued.                                *)
(***************************************************************************)
C17_AbortStep ==
    /\ (pc # "aborted" /\ pc' = "aborted") =>
          /\ pc \in CallPcs \cup {"init_clients"}
          /\ run' = run
          /\ UNCHANGED <<sites_mapping, equipments_mapping, yuman_sites, yuman_materials,
                         calls>>
    /\ pc = "aborted" =>
          /\ run' = run + 1
          /\ pc' = "init_clients"
          /\ UNCHANGED <<sites_mapping, equipments_mapping, yuman_sites, yuman_materials,
                         calls>>

\* what the calls of the aborted run created is still in the CMMS
C17_EffectsKept ==
    pc = "aborted" =>
        \A c \in Range(CreateCalls("create_site")) :
            \E s \in Range(yuman_sites) : s.id = c.id

C17_AbortNoRetryNoRollback == [](C17_EffectsKept) /\ [][C17_AbortStep]_vars

\* a run aborted after it had written to the DB and created a site in the CMMS
C17_Witness ==
    /\ pc = "aborted"
    /\ sites_mapping # <<>>
    /\ \E c \in Range(CreateCalls("create_site")) : c.run = run

(***************************************************************************)
(* C18: a process started with the DB URL or the service key missing ends  *)
(* at the construction of the clients: it never reaches a fetch or a       *)
(* write, no snapshot is held by main(), no CMMS call of that run is       *)
(* logged, and no step of that run changes the DB or the CMMS.             *)
(***************************************************************************)
CredentialsMissing ==
    environ.SUPABASE_URL \in {None, ""} \/ environ.SUPABASE_SERVICE_KEY \in {None, ""}

C18_NothingFetched ==
    (run >= 1 /\ CredentialsMissing) =>
        /\ pc \in {"init_clients", "aborted"}
        /\ v_sites = <<>> /\ v_equips = <<>> /\ db_sites = <<>> /\ db_equips = <<>>
        /\ \A c \in Range(calls) : c.run # run

C18_NothingWritten ==
    (run >= 1 /\ CredentialsMissing /\ run' = run) =>
        /\ UNCHANGED <<sites_mapping, equipments_mapping, yuman_sites, yuman_materials,
                       yuman_next, calls>>
        /\ pc' = "aborted"

C18_ConfigErrorFatal == [](C18_NothingFetched) /\ [][C18_NothingWritten]_vars

\* a process without the service key has ended, while the monitoring system has data
\* and an earlier run left rows in the DB
C18_Witness ==
    /\ pc = "aborted" /\ run >= 2
    /\ environ.SUPABASE_URL = "set" /\ environ.SUPABASE_SERVICE_KEY \in {None, ""}
    /\ vcom # <<>>
    /\ sites_mapping # <<>>

(***************************************************************************)
(* C19: no snapshot an adapter produces holds an Equipment whose device    *)
(* identifier is missing or empty: not the monitoring snapshot or the DB   *)
(* snapshot held by main(), not the snapshot the CMMS adapter builds from  *)
(* what the CMMS stores, and so none of the items of an equipment diff.    *)
(***************************************************************************)
HasDevice(e) == e.vcom_device_id \notin {None, ""}

C19_NoBlankDevice ==
    /\ \A e \in Range(Values(v_equips)) : HasDevice(e)
    /\ \A e \in Range(Values(db_equips)) : HasDevice(e)
    /\ \A e \in Range(Values(YuFetchEquips(YuFetchSites(yuman_sites), yuman_materials))) :
          HasDevice(e)
    /\ \A e \in Range(patch_equips.add) : HasDevice(e)

(***************************************************************************)
(* C20: the DB -> CMMS hop never applies deletes: while it runs, a site or *)
(* a material that the CMMS snapshot holds under a key absent from the DB  *)
(* snapshot stays in the CMMS as it is, and the DB rows of that key, if    *)
(* any, are left as they are.                                              *)
(***************************************************************************)
\* the keys under which the CMMS adapter would report what the CMMS stores
CmmsSites == YuFetchSites(yuman_sites)
CmmsEquips == YuFetchEquips(CmmsSites, yuman_materials)

C20_NoDeleteStep ==
    pc \in Hop2Pcs =>
        /\ \A k \in Keys(CmmsSites) \ Keys(db_sites) :
              /\ \E s \in Range(yuman_sites) :
                    s.id = Get(CmmsSites, k).yuman_site_id /\ s \in Range(yuman_sites')
              /\ SelectSeq(sites_mapping', LAMBDA r : r.vcom_system_key = k)
                    = SelectSeq(sites_mapping, LAMBDA r : r.vcom_system_key = k)
        /\ \A k \in Keys(CmmsEquips) \ Keys(db_equips) :
              /\ \E m \in Range(yuman_materials) :
                    m.id = Get(CmmsEquips, k).yuman_material_id
                       /\ m \in Range(yuman_materials')
              /\ SelectSeq(equipments_mapping',
                           LAMBDA r : <<r.vcom_system_key, r.vcom_device_id>> = k)
                    = SelectSeq(equipments_mapping,
                                LAMBDA r : <<r.vcom_system_key, r.vcom_device_id>> = k)

\* no call of the hop names what is to be deleted
C20_NoCallOnDeleted ==
    /\ pc = "ya_equips_fetch" =>
          \A d \in Range(patch.delete) :
              \A c \in Range(calls) : c.run = run => c.id # d.yuman_site_id
    /\ pc = "done" =>
          \A d \in Range(patch.delete) :
              \A c \in Range(calls) : c.run = run => c.id # d.yuman_material_id

C20_DeletesNeverApplied == [](C20_NoCallOnDeleted) /\ [][C20_NoDeleteStep]_vars

\* a run ended whose two appliers each computed a delete and created something
C20_Witness ==
    /\ pc = "done"
    /\ patch.delete # <<>>
    /\ Keys(CmmsSites) \ Keys(db_sites) # {}
    /\ Keys(CmmsEquips) \ Keys(db_equips) # {}
    /\ \E c \in Range(CreateCalls("create_site")) : c.run = run
    /\ \E c \in Range(CreateCalls("create_material")) : c.run = run

(***************************************************************************)
(* C21: diff_entities is pure and deterministic: the call leaves both      *)
(* input maps as they were, and for every reordering of the two maps that  *)
(* keeps the same key-to-entity mappings the add, update and delete        *)
(* sequences hold the same elements, as many of them, as the result        *)
(* returned.                                                               *)
(***************************************************************************)
\* the dicts that hold the mappings of d in some iteration order
Reorderings(d) ==
    {s \in [DOMAIN d -> Range(d)] : Range(s) = Range(d)}

SameElements(a, b) == Range(a) = Range(b) /\ Len(a) = Len(b)

C21_OrderIrrelevant ==
    d_pc = "returned" =>
        /\ d_out = diff_entities(cur_in, tgt_in)
        /\ \A c \in Reorderings(cur_in), t \in Reorderings(tgt_in) :
              LET q == diff_entities(c, t)
              IN  /\ SameElements(q.add, d_out.add)
                  /\ SameElements(q.update, d_out.update)
                  /\ SameElements(q.delete, d_out.delete)

C21_InputsKept == d_pc = "call" /\ d_pc' = "returned" => UNCHANGED <<cur_in, tgt_in>>

C21_PureDeterministic == [](C21_OrderIrrelevant) /\ [][C21_InputsKept]_vars

\* a call returned whose two maps each hold two keys, the current one not in key order,
\* with a delete and an update in its result
C21_Witness ==
    /\ d_pc = "returned"
    /\ Len(cur_in) = 2 /\ Len(tgt_in) = 2
    /\ cur_in[1][1] = "S2" /\ cur_in[2][1] = "S1"
    /\ d_out.delete # <<>> /\ d_out.update # <<>>

(***************************************************************************)
(* SpecRateLive: SpecRate with the scheduling the interpreter gives: a     *)
(* caller inside the wrapper keeps running, and the clock keeps advancing  *)
(***************************************************************************)
RateFairness ==
    /\ \A c \in OneCaller :
          /\ WF_vars(EvictRead(c)) /\ WF_vars(EvictWrite(c)) /\ WF_vars(Check(c))
          /\ WF_vars(Wake(c)) /\ WF_vars(CallFunc(c)) /\ WF_vars(Record(c))
    /\ WF_vars(Tick)

SpecRateLive == InitRate(OneCaller) /\ [][NextRate]_vars /\ RateFairness

(***************************************************************************)
(* C22: the rate limiter never blocks for ever.  With the calls made one   *)
(* after the other, as main() makes them, a caller that finds RATE         *)
(* or more timestamps in the window asks for one sleep, longer than zero   *)
(* and no longer than the window plus the margin; when the sleep returns   *)
(* the caller goes to the wrapped call without testing the window again;   *)
(* and every caller that entered the wrapper reaches the wrapped call, as  *)
(* long as its sleep ends within the time the clock covers.                *)
(***************************************************************************)
C22_SleepStep ==
    \A c \in DOMAIN th :
        /\ (th[c].pc = "check" /\ th'[c].pc # "check") =>
              IF AtCeiling(REQ_TS)
              THEN /\ th'[c].pc = "sleep"
                   /\ th'[c].wake - now > 0
                   /\ th'[c].wake - now <= Window + Margin
              ELSE th'[c].pc = "call"
        /\ (th[c].pc = "sleep" /\ th'[c].pc # "sleep") =>
              th'[c].pc = "call" /\ now >= th[c].wake
        /\ (th[c].pc = "call" /\ th'[c].pc # "call") =>
              th'[c].pc = "finally" /\ Len(started') >= 1 /\ started'[Len(started')].t = now

InWrapper(c) == th[c].pc \in {"evict", "assign", "check", "sleep", "call"}

C22_Executes ==
    \A c \in OneCaller :
        (InWrapper(c) /\ (th[c].pc = "sleep" => th[c].wake <= MaxTime))
            ~> (th[c].pc = "finally" \/ (th[c].pc = "sleep" /\ th[c].wake > MaxTime))

C22_BoundedSleep == [][C22_SleepStep]_vars /\ C22_Executes

\* the caller asked for the longest sleep there is, woke and is in the wrapped call
C22_Witness ==
    \E c \in DOMAIN th :
        /\ th[c].pc = "finally" /\ th[c].slept
        /\ \E i \in DOMAIN REQ_TS : started[Len(started)].t - REQ_TS[i] >= Window + Margin

(***************************************************************************)
(* C23: with the calls made one after the other, each invocation of a      *)
(* rate-limited function appends exactly one timestamp to the window: the  *)
(* clock's time when the wrapped call has ended, whether it returned or    *)
(* raised, and no other step lengthens the window.  The eviction keeps     *)
(* exactly the timestamps younger than the window, so that from the        *)
(* eviction to the call the window holds only such timestamps; and the     *)
(* window is always in non-decreasing order.                               *)
(***************************************************************************)
Sorted(ts) == \A i, j \in DOMAIN ts : i < j => ts[i] <= ts[j]

C23_AppendStep ==
    \A c \in DOMAIN th :
        /\ (th[c].pc = "finally" /\ th'[c].pc # "finally") =>
              /\ REQ_TS' = Append(REQ_TS, now)
              /\ started # <<>> => now >= started[Len(started)].t
        /\ (th[c].pc # "finally" /\ th'[c] # th[c]) => Len(REQ_TS') <= Len(REQ_TS)
        /\ (th[c].pc = "assign" /\ th'[c].pc # "assign") =>
              REQ_TS' = SelectSeq(REQ_TS, LAMBDA t : th[c].now - t < Window)

C23_WindowYoungSorted ==
    /\ Sorted(REQ_TS)
    /\ \A c \in DOMAIN th :
          th[c].pc = "check" => \A t \in Range(REQ_TS) : th[c].now - t < Window

C23_OneTimestampPerCall == [](C23_WindowYoungSorted) /\ [][C23_AppendStep]_vars

\* a call that raised has just had its timestamp appended; the window holds two
\* timestamps or more, and an earlier eviction dropped one
C23_Witness ==
    \E c \in DOMAIN th :
        /\ th[c].pc = "idle" /\ th[c].raised
        /\ Len(REQ_TS) >= 2
        /\ REQ_TS[Len(REQ_TS)] = now
        /\ entered > Len(REQ_TS)

(***************************************************************************)
(* C24: within a run the site applier has finished, write-backs included,  *)
(* before the equipment applier starts: while the equipment applier runs,  *)
(* every site the run created in the CMMS has its identifier in its DB     *)
(* row.  The equipment adds read that row, so when the run is through,     *)
(* every equipment add whose site the same run created was itself created  *)
(* in the CMMS, although the snapshot main() holds shows the site without  *)
(* an identifier.                                                          *)
(***************************************************************************)
EquipHopPcs == {"ya_equips_fetch", "ya_equips_add", "ya_equips_wb", "ya_equips_upd"}

\* the site of key k was created in the CMMS by the run in progress
SiteCreatedNow(k) == \E c \in Range(RunCalls("create_site")) : c.key = k

C24_SitesWrittenBack ==
    pc \in EquipHopPcs =>
        \A c \in Range(RunCalls("create_site")) :
            \E r \in Range(sites_mapping) :
                r.vcom_system_key = c.key /\ r.yuman_site_id = c.id

C24_ChildrenCreated ==
    pc = "done" =>
        \A e \in Range(patch.add) :
            SiteCreatedNow(e.site_key) =>
                \E c \in Range(RunCalls("create_material")) : c.key = EquipKey(e)

C24_SiteBeforeEquipment == C24_SitesWrittenBack /\ C24_ChildrenCreated

\* a run is through that created a site and an equipment of that site, the snapshot
\* of the DB still showing the site without an identifier
C24_Witness ==
    /\ pc = "done"
    /\ \E e \in Range(patch.add) :
          /\ SiteCreatedNow(e.site_key)
          /\ Has(db_sites, e.site_key)
          /\ Get(db_sites, e.site_key).yuman_site_id = None
          /\ \E c \in Range(RunCalls("create_material")) : c.key = EquipKey(e)

(***************************************************************************)
(* C25: the two entities of an update pair come from the same key.  In the *)
(* Monitoring -> DB hop each pair of the equipment patch is the DB entity  *)
(* and the monitoring entity stored under one key of the two snapshots;    *)
(* and in every equipment update pair an applier is given, old and new     *)
(* have the same site key and the same device identifier (and in every     *)
(* site pair the same system key).                                         *)
(***************************************************************************)
Hop1Pcs == {"sb_sites_add", "sb_sites_upd", "sb_equips_add", "sb_equips_upd"}

SameEquipKey(pair) ==
    /\ pair[1].site_key = pair[2].site_key
    /\ pair[1].vcom_device_id = pair[2].vcom_device_id

C25_UpdatePairsSameKey ==
    /\ \A pair \in Range(patch_equips.update) : SameEquipKey(pair)
    /\ \A pair \in Range(patch_sites.update) : SiteKey(pair[1]) = SiteKey(pair[2])
    /\ pc \in Hop1Pcs =>
          \A pair \in Range(patch_equips.update) :
              \E k \in Keys(db_equips) \cap Keys(v_equips) :
                  /\ Get(db_equips, k) = pair[1] /\ Get(v_equips, k) = pair[2]
                  /\ EquipKey(pair[1]) = k
    /\ pc \in {"ya_equips_add", "ya_equips_wb", "ya_equips_upd", "done"} =>
          \A pair \in Range(patch.update) :
              /\ SameEquipKey(pair)
              /\ Has(db_equips, EquipKey(pair[2])) /\ Get(db_equips, EquipKey(pair[2])) = pair[2]
    /\ pc \in {"ya_sites_add", "ya_sites_wb", "ya_sites_upd", "ya_equips_fetch"} =>
          \A pair \in Range(patch.update) : SiteKey(pair[1]) = SiteKey(pair[2])

\* both appliers of a run were given an equipment update pair, the CMMS one after
\* another equipment of the snapshot
C25_Witness ==
    /\ pc = "done"
    /\ patch_equips.update # <<>>
    /\ patch.update # <<>>
    /\ Len(db_equips) >= 2
    /\ \E c \in Range(RunCalls("update_material")) :
          c.key = EquipKey(patch.update[1][2])

(***************************************************************************)
(* C26: every update_site and update_material call the DB -> CMMS hop has  *)
(* issued names an identifier that is not null and that the CMMS gave to   *)
(* the record it stores under the key of the pair, whatever identifier     *)
(* the DB holds for that key.                                              *)
(***************************************************************************)
UpdateCalls(op) == SelectSeq(calls, LAMBDA c : c.op = op)

\* the key under which the CMMS adapter reports material m, if its site is mapped
MaterialKey(m) ==
    LET owner == SitesOfId(CmmsSites, m.site_id)
    IN  IF owner = <<>> THEN None ELSE EquipKey(YuEquip(owner[1], m))

C26_UpdateTargetsCmmsId ==
    /\ \A c \in Range(UpdateCalls("update_site")) :
          /\ c.id # None
          /\ \E s \in Range(yuman_sites) : s.id = c.id /\ Cval(s.fields, F_KEY) = c.key
    /\ \A c \in Range(UpdateCalls("update_material")) :
          /\ c.id # None
          /\ \E m \in Range(yuman_materials) : m.id = c.id /\ MaterialKey(m) = c.key

\* a run is through that updated a site whose DB row has no CMMS identifier, and a
\* material
C26_Witness ==
    /\ pc = "done"
    /\ \E c \in Range(RunCalls("update_site")) :
          \E r \in Range(sites_mapping) :
              r.vcom_system_key = c.key /\ r.yuman_site_id = None
    /\ RunCalls("update_material") # <<>>

(***************************************************************************)
(* C27: in the DB -> CMMS hop the only writes to the DB are the write-backs *)
(* of identifiers: a step of the hop that changes a table is the step      *)
(* right after a create call, and it alters nothing but the foreign        *)
(* identifier of the rows of the created item's key, which it sets to the  *)
(* identifier the call returned.  So when an applier is through, the DB    *)
(* row of every update pair whose DB entity had no foreign identifier      *)
(* still has none.                                                         *)
(***************************************************************************)
LastCall == calls[Len(calls)]

C27_WriteStep ==
    pc \in Hop2Pcs =>
        /\ sites_mapping' # sites_mapping =>
              /\ pc = "ya_sites_wb"
              /\ LastCall.op = "create_site" /\ LastCall.run = run
              /\ LastCall.key = SiteKey(patch.add[idx])
              /\ Len(sites_mapping') = Len(sites_mapping)
              /\ \A i \in DOMAIN sites_mapping :
                    IF sites_mapping[i].vcom_system_key = LastCall.key
                    THEN sites_mapping'[i] =
                            [sites_mapping[i] EXCEPT !.yuman_site_id = LastCall.id]
                    ELSE sites_mapping'[i] = sites_mapping[i]
        /\ equipments_mapping' # equipments_mapping =>
              /\ pc = "ya_equips_wb"
              /\ LastCall.op = "create_material" /\ LastCall.run = run
              /\ LastCall.key = EquipKey(patch.add[idx])
              /\ Len(equipments_mapping') = Len(equipments_mapping)
              /\ \A i \in DOMAIN equipments_mapping :
                    LET r == equipments_mapping[i]
                    IN  IF <<r.vcom_system_key, r.vcom_device_id>> = LastCall.key
                        THEN equipments_mapping'[i] =
                                [r EXCEPT !.yuman_material_id = LastCall.id]
                        ELSE equipments_mapping'[i] = r

C27_AbsentStaysAbsent ==
    /\ pc = "ya_equips_fetch" =>
          \A pair \in Range(patch.update) :
              pair[2].yuman_site_id = None =>
                  \A r \in Range(sites_mapping) :
                      r.vcom_system_key = SiteKey(pair[2]) => r.yuman_site_id = None
    /\ pc = "done" =>
          \A pair \in Range(patch.update) :
              pair[2].yuman_material_id = None =>
                  \A r \in Range(equipments_mapping) :
                      <<r.vcom_system_key, r.vcom_device_id>> = EquipKey(pair[2]) =>
                          r.yuman_material_id = None

C27_OnlyWriteBacks == [](C27_AbsentStaysAbsent) /\ [][C27_WriteStep]_vars

\* a run is through whose equipment applier wrote an identifier back and handled an
\* update pair of a material the DB has no identifier for
C27_Witness ==
    /\ pc = "done"
    /\ RunCalls("create_material") # <<>>
    /\ \E pair \in Range(patch.update) :
          /\ pair[2].yuman_material_id = None
          /\ \E r \in Range(equipments_mapping) :
                <<r.vcom_system_key, r.vcom_device_id>> = EquipKey(pair[2])
====
